---- MODULE Spec2Model ----
(***************************************************************************)
(* MojiJS Japanese.js: half-width/full-width conversion of ASCII and Kana, *)
(* display-width measurement (getWidth) and display-width slicing          *)
(* (cutTextForWidth).                                                      *)
(*                                                                         *)
(* A JavaScript string is a sequence of UTF-16 code units (0..65535); the  *)
(* conversions work on code units (charCodeAt, regular expressions without *)
(* the u flag), the width functions on the UTF-32 array of the string.     *)
(***************************************************************************)
EXTENDS Integers, Sequences, FiniteSets, TLC

VARIABLES
    text,    \* the text the functions are applied to
    ops,     \* names of the conversions applied so far, in order
    hist,    \* hist[k] is the text returned by ops[k], applied to hist[k-1]
    offset,  \* cutTextForWidth argument
    size,    \* cutTextForWidth argument
    pc,      \* "idle", "start", "loop", "return", "done", "measured"
    cut,     \* locals of cutTextForWidth
    result,  \* text returned by cutTextForWidth
    width    \* value returned by getWidth(text)

vars == <<text, ops, hist, offset, size, pc, cut, result, width>>

\* Longest text over the representative alphabets.
MaxLen == 3
\* Longest chain of Kana conversions applied to one text.
MaxOps == 3
\* Longest text and longest chain of conversions in the composition runs.
MaxComposeLen == 2
MaxPass == 1
\* Range of the cutTextForWidth arguments: offset in -MaxNeg..MaxOffset,
\* size in -1..MaxSize.
MaxNeg == 2
MaxOffset == 3
MaxSize == 5

SeqsUpTo(S, n) == UNION {[1..k -> S] : k \in 0..n}

(***************************************************************************)
(* String.fromCharCode: ToUint16 of the argument.                          *)
(***************************************************************************)
fromCharCode(code) == code % 65536

(***************************************************************************)
(* toHalfWidthAsciiCode: four replace passes, each over single code units. *)
(***************************************************************************)
\* out.replace(/\u3000/g, "\u0020")
HalfAsciiSpace(out) ==
    [i \in 1..Len(out) |-> IF out[i] = \h3000 THEN \h0020 ELSE out[i]]
\* out.replace(/[\u2018-\u201B]/g, "\u0027")
HalfAsciiSingleQuote(out) ==
    [i \in 1..Len(out) |-> IF \h2018 <= out[i] /\ out[i] <= \h201B THEN \h0027 ELSE out[i]]
\* out.replace(/[\u201C-\u201F]/g, "\u0022")
HalfAsciiDoubleQuote(out) ==
    [i \in 1..Len(out) |-> IF \h201C <= out[i] /\ out[i] <= \h201F THEN \h0022 ELSE out[i]]
\* variant: the class carried on to U+FF9F
HalfAsciiShiftWide(out) ==
    [i \in 1..Len(out) |-> IF \hFF01 <= out[i] /\ out[i] <= \hFF9F
                           THEN fromCharCode(out[i] - \hFEE0) ELSE out[i]]
\* out.replace(/[\uFF01-\uFF5E]/g, func)
HalfAsciiShift(out) ==
    [i \in 1..Len(out) |-> IF \hFF01 <= out[i] /\ out[i] <= \hFF5E
                           THEN fromCharCode(out[i] - \hFEE0) ELSE out[i]]

toHalfWidthAsciiCode(t) ==
    HalfAsciiShift(HalfAsciiDoubleQuote(HalfAsciiSingleQuote(HalfAsciiSpace(t))))

(***************************************************************************)
(* toFullWidthAsciiCode.                                                   *)
(***************************************************************************)
\* out.replace(/\u0020/g, "\u3000")
FullAsciiSpace(out) ==
    [i \in 1..Len(out) |-> IF out[i] = \h0020 THEN \h3000 ELSE out[i]]
\* out.replace(/\u0022/g, "\u201D")
FullAsciiDoubleQuote(out) ==
    [i \in 1..Len(out) |-> IF out[i] = \h0022 THEN \h201D ELSE out[i]]
\* out.replace(/\u0027/g, "\u2019")
FullAsciiSingleQuote(out) ==
    [i \in 1..Len(out) |-> IF out[i] = \h0027 THEN \h2019 ELSE out[i]]
\* out.replace(/[\u0020-\u007E]/g, func)
FullAsciiShift(out) ==
    [i \in 1..Len(out) |-> IF \h0020 <= out[i] /\ out[i] <= \h007E
                           THEN fromCharCode(out[i] + \hFEE0) ELSE out[i]]

toFullWidthAsciiCode(t) ==
    FullAsciiShift(FullAsciiSingleQuote(FullAsciiDoubleQuote(FullAsciiSpace(t))))

(***************************************************************************)
(* toHalfWidthKana.                                                        *)
(***************************************************************************)
\* const map: full-width code unit -> half-width string
HalfMap ==
    (\h3001 :> <<\hFF64>>) @@ (\h3002 :> <<\hFF61>>) @@ (\h300C :> <<\hFF62>>) @@
    (\h300D :> <<\hFF63>>) @@ (\h309B :> <<\hFF9E>>) @@ (\h309C :> <<\hFF9F>>) @@
    (\h30A1 :> <<\hFF67>>) @@ (\h30A2 :> <<\hFF71>>) @@ (\h30A3 :> <<\hFF68>>) @@
    (\h30A4 :> <<\hFF72>>) @@ (\h30A5 :> <<\hFF69>>) @@ (\h30A6 :> <<\hFF73>>) @@
    (\h30A7 :> <<\hFF6A>>) @@ (\h30A8 :> <<\hFF74>>) @@ (\h30A9 :> <<\hFF6B>>) @@
    (\h30AA :> <<\hFF75>>) @@ (\h30AB :> <<\hFF76>>) @@ (\h30AC :> <<\hFF76, \hFF9E>>) @@
    (\h30AD :> <<\hFF77>>) @@ (\h30AE :> <<\hFF77, \hFF9E>>) @@ (\h30AF :> <<\hFF78>>) @@
    (\h30B0 :> <<\hFF78, \hFF9E>>) @@ (\h30B1 :> <<\hFF79>>) @@ (\h30B2 :> <<\hFF79, \hFF9E>>) @@
    (\h30B3 :> <<\hFF7A>>) @@ (\h30B4 :> <<\hFF7A, \hFF9E>>) @@ (\h30B5 :> <<\hFF7B>>) @@
    (\h30B6 :> <<\hFF7B, \hFF9E>>) @@ (\h30B7 :> <<\hFF7C>>) @@ (\h30B8 :> <<\hFF7C, \hFF9E>>) @@
    (\h30B9 :> <<\hFF7D>>) @@ (\h30BA :> <<\hFF7D, \hFF9E>>) @@ (\h30BB :> <<\hFF7E>>) @@
    (\h30BC :> <<\hFF7E, \hFF9E>>) @@ (\h30BD :> <<\hFF7F>>) @@ (\h30BE :> <<\hFF7F, \hFF9E>>) @@
    (\h30BF :> <<\hFF80>>) @@ (\h30C0 :> <<\hFF80, \hFF9E>>) @@ (\h30C1 :> <<\hFF81>>) @@
    (\h30C2 :> <<\hFF81, \hFF9E>>) @@ (\h30C3 :> <<\hFF6F>>) @@ (\h30C4 :> <<\hFF82>>) @@
    (\h30C5 :> <<\hFF82, \hFF9E>>) @@ (\h30C6 :> <<\hFF83>>) @@ (\h30C7 :> <<\hFF83, \hFF9E>>) @@
    (\h30C8 :> <<\hFF84>>) @@ (\h30C9 :> <<\hFF84, \hFF9E>>) @@ (\h30CA :> <<\hFF85>>) @@
    (\h30CB :> <<\hFF86>>) @@ (\h30CC :> <<\hFF87>>) @@ (\h30CD :> <<\hFF88>>) @@
    (\h30CE :> <<\hFF89>>) @@ (\h30CF :> <<\hFF8A>>) @@ (\h30D0 :> <<\hFF8A, \hFF9E>>) @@
    (\h30D1 :> <<\hFF8A, \hFF9F>>) @@ (\h30D2 :> <<\hFF8B>>) @@ (\h30D3 :> <<\hFF8B, \hFF9E>>) @@
    (\h30D4 :> <<\hFF8B, \hFF9F>>) @@ (\h30D5 :> <<\hFF8C>>) @@ (\h30D6 :> <<\hFF8C, \hFF9E>>) @@
    (\h30D7 :> <<\hFF8C, \hFF9F>>) @@ (\h30D8 :> <<\hFF8D>>) @@ (\h30D9 :> <<\hFF8D, \hFF9E>>) @@
    (\h30DA :> <<\hFF8D, \hFF9F>>) @@ (\h30DB :> <<\hFF8E>>) @@ (\h30DC :> <<\hFF8E, \hFF9E>>) @@
    (\h30DD :> <<\hFF8E, \hFF9F>>) @@ (\h30DE :> <<\hFF8F>>) @@ (\h30DF :> <<\hFF90>>) @@
    (\h30E0 :> <<\hFF91>>) @@ (\h30E1 :> <<\hFF92>>) @@ (\h30E2 :> <<\hFF93>>) @@
    (\h30E3 :> <<\hFF6C>>) @@ (\h30E4 :> <<\hFF94>>) @@ (\h30E5 :> <<\hFF6D>>) @@
    (\h30E6 :> <<\hFF95>>) @@ (\h30E7 :> <<\hFF6E>>) @@ (\h30E8 :> <<\hFF96>>) @@
    (\h30E9 :> <<\hFF97>>) @@ (\h30EA :> <<\hFF98>>) @@ (\h30EB :> <<\hFF99>>) @@
    (\h30EC :> <<\hFF9A>>) @@ (\h30ED :> <<\hFF9B>>) @@ (\h30EE :> <<\hFF9C>>) @@
    (\h30EF :> <<\hFF9C>>) @@ (\h30F0 :> <<\hFF72>>) @@ (\h30F1 :> <<\hFF74>>) @@
    (\h30F2 :> <<\hFF66>>) @@ (\h30F3 :> <<\hFF9D>>) @@ (\h30F4 :> <<\hFF73, \hFF9E>>) @@
    (\h30F5 :> <<\hFF76>>) @@ (\h30F6 :> <<\hFF79>>) @@ (\h30F7 :> <<\hFF9C, \hFF9E>>) @@
    (\h30F8 :> <<\hFF72, \hFF9E>>) @@ (\h30F9 :> <<\hFF74, \hFF9E>>) @@ (\h30FA :> <<\hFF66, \hFF9E>>) @@
    (\h30FB :> <<\hFF65>>) @@ (\h30FC :> <<\hFF70>>)

\* The text JavaScript makes of a missing table entry.
UndefinedText == <<117, 110, 100, 101, 102, 105, 110, 101, 100>>

\* map[code] used as a string
HalfMapGet(code) == IF code \in DOMAIN HalfMap THEN HalfMap[code] ELSE UndefinedText

\* variant: the class carried on to U+30FD
HalfSrcWide(c) ==
    c \in {\h3001, \h3002, \h300C, \h300D, \h309B, \h309C} \/ (\h30A1 <= c /\ c <= \h30FD)
\* first character class of the pattern
HalfSrc(c) ==
    c \in {\h3001, \h3002, \h300C, \h300D, \h309B, \h309C} \/ (\h30A1 <= c /\ c <= \h30FC)

\* second, optional character class of the pattern
HalfMark(c) == c \in {\h309B, \h309C}

\* variant: the second code unit of the match is dropped
toHalfWidthKana_funcDropsMark(ch) == HalfMapGet(ch[1])
\* const func: the replacement of one match ch (one or two code units)
toHalfWidthKana_func(ch) ==
    IF Len(ch) = 1 THEN HalfMapGet(ch[1])
    ELSE HalfMapGet(ch[1]) \o HalfMapGet(ch[2])

\* text.replace(/[src][mark]?/g, func): leftmost matches, the optional mark
\* taken greedily, unmatched code units copied.
RECURSIVE toHalfWidthKana(_)
toHalfWidthKana(t) ==
    IF t = <<>> THEN <<>>
    ELSE IF ~HalfSrc(t[1]) THEN <<t[1]>> \o toHalfWidthKana(Tail(t))
    ELSE IF Len(t) >= 2 /\ HalfMark(t[2])
         THEN toHalfWidthKana_func(SubSeq(t, 1, 2)) \o toHalfWidthKana(SubSeq(t, 3, Len(t)))
         ELSE toHalfWidthKana_func(SubSeq(t, 1, 1)) \o toHalfWidthKana(Tail(t))

(***************************************************************************)
(* toFullWidthKana.                                                        *)
(***************************************************************************)
\* const map: half-width code unit -> full-width code unit
FullMap ==
    (\hFF61 :> \h3002) @@ (\hFF62 :> \h300C) @@ (\hFF63 :> \h300D) @@ (\hFF64 :> \h3001) @@
    (\hFF65 :> \h30FB) @@ (\hFF66 :> \h30F2) @@ (\hFF67 :> \h30A1) @@ (\hFF68 :> \h30A3) @@
    (\hFF69 :> \h30A5) @@ (\hFF6A :> \h30A7) @@ (\hFF6B :> \h30A9) @@ (\hFF6C :> \h30E3) @@
    (\hFF6D :> \h30E5) @@ (\hFF6E :> \h30E7) @@ (\hFF6F :> \h30C3) @@ (\hFF70 :> \h30FC) @@
    (\hFF71 :> \h30A2) @@ (\hFF72 :> \h30A4) @@ (\hFF73 :> \h30A6) @@ (\hFF74 :> \h30A8) @@
    (\hFF75 :> \h30AA) @@ (\hFF76 :> \h30AB) @@ (\hFF77 :> \h30AD) @@ (\hFF78 :> \h30AF) @@
    (\hFF79 :> \h30B1) @@ (\hFF7A :> \h30B3) @@ (\hFF7B :> \h30B5) @@ (\hFF7C :> \h30B7) @@
    (\hFF7D :> \h30B9) @@ (\hFF7E :> \h30BB) @@ (\hFF7F :> \h30BD) @@ (\hFF80 :> \h30BF) @@
    (\hFF81 :> \h30C1) @@ (\hFF82 :> \h30C4) @@ (\hFF83 :> \h30C6) @@ (\hFF84 :> \h30C8) @@
    (\hFF85 :> \h30CA) @@ (\hFF86 :> \h30CB) @@ (\hFF87 :> \h30CC) @@ (\hFF88 :> \h30CD) @@
    (\hFF89 :> \h30CE) @@ (\hFF8A :> \h30CF) @@ (\hFF8B :> \h30D2) @@ (\hFF8C :> \h30D5) @@
    (\hFF8D :> \h30D8) @@ (\hFF8E :> \h30DB) @@ (\hFF8F :> \h30DE) @@ (\hFF90 :> \h30DF) @@
    (\hFF91 :> \h30E0) @@ (\hFF92 :> \h30E1) @@ (\hFF93 :> \h30E2) @@ (\hFF94 :> \h30E4) @@
    (\hFF95 :> \h30E6) @@ (\hFF96 :> \h30E8) @@ (\hFF97 :> \h30E9) @@ (\hFF98 :> \h30EA) @@
    (\hFF99 :> \h30EB) @@ (\hFF9A :> \h30EC) @@ (\hFF9B :> \h30ED) @@ (\hFF9C :> \h30EF) @@
    (\hFF9D :> \h30F3) @@ (\hFF9E :> \h309B) @@ (\hFF9F :> \h309C)

\* String.fromCharCode(map[code] + shift); a missing entry makes NaN, and
\* String.fromCharCode(NaN) is U+0000.
FullMapChar(code, shift) ==
    IF code \in DOMAIN FullMap THEN <<fromCharCode(FullMap[code] + shift)>> ELSE <<0>>

\* first character class of the pattern
FullSrc(c) == \hFF61 <= c /\ c <= \hFF9F

\* second, optional character class of the pattern
FullMark(c) == c \in {\hFF9E, \hFF9F}

\* variant: the voiced range ends at U+FF83
toFullWidthKana_funcNarrowRange(str) ==
    IF Len(str) = 1 THEN FullMapChar(str[1], 0)
    ELSE LET next == str[2]
             ch   == str[1]
         IN  IF next = \hFF9E /\ ch = \hFF73 THEN <<fromCharCode(\h3094)>>
             ELSE IF next = \hFF9E /\ ((\hFF76 <= ch /\ ch <= \hFF83) \/ (\hFF8A <= ch /\ ch <= \hFF8E))
                  THEN FullMapChar(ch, 1)
             ELSE IF next = \hFF9F /\ (\hFF8A <= ch /\ ch <= \hFF8E)
                  THEN FullMapChar(ch, 2)
             ELSE FullMapChar(ch, 0) \o FullMapChar(next, 0)
\* variant: the semi-voiced mark joins any base
toFullWidthKana_funcAnySemiVoiced(str) ==
    IF Len(str) = 1 THEN FullMapChar(str[1], 0)
    ELSE LET next == str[2]
             ch   == str[1]
         IN  IF next = \hFF9E /\ ch = \hFF73 THEN <<fromCharCode(\h3094)>>
             ELSE IF next = \hFF9E /\ ((\hFF76 <= ch /\ ch <= \hFF84) \/ (\hFF8A <= ch /\ ch <= \hFF8E))
                  THEN FullMapChar(ch, 1)
             ELSE IF next = \hFF9F
                  THEN FullMapChar(ch, 2)
             ELSE FullMapChar(ch, 0) \o FullMapChar(next, 0)
\* const func: the replacement of one match str (one or two code units)
toFullWidthKana_func(str) ==
    IF Len(str) = 1 THEN FullMapChar(str[1], 0)
    ELSE LET next == str[2]
             ch   == str[1]
         IN  IF next = \hFF9E /\ ch = \hFF73 THEN <<fromCharCode(\h3094)>>
             ELSE IF next = \hFF9E /\ ((\hFF76 <= ch /\ ch <= \hFF84) \/ (\hFF8A <= ch /\ ch <= \hFF8E))
                  THEN FullMapChar(ch, 1)
             ELSE IF next = \hFF9F /\ (\hFF8A <= ch /\ ch <= \hFF8E)
                  THEN FullMapChar(ch, 2)
             ELSE FullMapChar(ch, 0) \o FullMapChar(next, 0)

\* text.replace(/[src][mark]?/g, func)
RECURSIVE toFullWidthKana(_)
toFullWidthKana(t) ==
    IF t = <<>> THEN <<>>
    ELSE IF ~FullSrc(t[1]) THEN <<t[1]>> \o toFullWidthKana(Tail(t))
    ELSE IF Len(t) >= 2 /\ FullMark(t[2])
         THEN toFullWidthKana_func(SubSeq(t, 1, 2)) \o toFullWidthKana(SubSeq(t, 3, Len(t)))
         ELSE toFullWidthKana_func(SubSeq(t, 1, 1)) \o toFullWidthKana(Tail(t))

(***************************************************************************)
(* toHalfWidth, toFullWidth: the ASCII pass, then the Kana pass.           *)
(***************************************************************************)
toHalfWidth(t) == toHalfWidthKana(toHalfWidthAsciiCode(t))
toFullWidth(t) == toFullWidthKana(toFullWidthAsciiCode(t))

(***************************************************************************)
(* Unicode.toUTF32Array / Unicode.fromUTF32Array (Unicode.js): a surrogate *)
(* pair is one code point.                                                 *)
(***************************************************************************)
IsHighSurrogate(u) == \hD800 <= u /\ u <= \hDBFF
IsLowSurrogate(u) == \hDC00 <= u /\ u <= \hDFFF

RECURSIVE toUTF32Array(_)
toUTF32Array(t) ==
    IF t = <<>> THEN <<>>
    ELSE IF Len(t) >= 2 /\ IsHighSurrogate(t[1]) /\ IsLowSurrogate(t[2])
         THEN <<\h10000 + (t[1] - \hD800) * \h400 + (t[2] - \hDC00)>>
              \o toUTF32Array(SubSeq(t, 3, Len(t)))
         ELSE <<t[1]>> \o toUTF32Array(Tail(t))

RECURSIVE fromUTF32Array(_)
fromUTF32Array(a) ==
    IF a = <<>> THEN <<>>
    ELSE IF a[1] >= \h10000
         THEN <<\hD800 + ((a[1] - \h10000) \div \h400), \hDC00 + ((a[1] - \h10000) % \h400)>>
              \o fromUTF32Array(Tail(a))
         ELSE <<a[1]>> \o fromUTF32Array(Tail(a))

(***************************************************************************)
(* getWidth.                                                               *)
(***************************************************************************)
\* variant: U+0080 counted as 1
getWidth_isHalfOffByOne(ch) == (ch <= \h80) \/ ((\hFF61 <= ch) /\ (ch < \hFFA0))
\* the condition under which getWidth counts ch as 1
getWidth_isHalf(ch) == (ch < \h80) \/ ((\hFF61 <= ch) /\ (ch < \hFFA0))

\* the for loop of getWidth, from index i (0-based) with the count so far
RECURSIVE getWidth_loop(_, _, _)
getWidth_loop(utf32_array, i, count) ==
    IF ~(i < Len(utf32_array)) THEN count
    ELSE LET ch == utf32_array[i + 1]
         IN  getWidth_loop(utf32_array, i + 1,
                           IF getWidth_isHalf(ch) THEN count + 1 ELSE count + 2)

getWidth(t) == getWidth_loop(toUTF32Array(t), 0, 0)

(***************************************************************************)
(* cutTextForWidth.  cut holds the locals; cut.origin is a history field   *)
(* that is not in the code: origin[k] tells for output[k] whether it was   *)
(* pushed as SPACE (pad) and at which index i of utf32_array (src).        *)
(***************************************************************************)
SPACE == 32

ch_size(ch) == IF (ch < \h80) \/ ((\hFF61 <= ch) /\ (ch < \hFFA0)) THEN 1 ELSE 2

\* the locals before the call
NoCut ==
    [utf32_array |-> <<>>, output |-> <<>>, origin |-> <<>>, is_target |-> FALSE,
     position |-> 0, cut_size |-> 0, ioffset |-> 0, i |-> 0]

\* variant: a negative offset leaves cut_size alone
CutEntryKeepsSize(t, off, sz) ==
    [utf32_array |-> toUTF32Array(t), output |-> <<>>, origin |-> <<>>,
     is_target |-> FALSE, position |-> 0,
     cut_size |-> sz,
     ioffset |-> IF off < 0 THEN 0 ELSE off,
     i |-> 0]
\* the locals when the for loop is reached (or "" is returned)
CutEntry(t, off, sz) ==
    [utf32_array |-> toUTF32Array(t), output |-> <<>>, origin |-> <<>>,
     is_target |-> FALSE, position |-> 0,
     cut_size |-> IF off < 0 THEN sz + off ELSE sz,
     ioffset |-> IF off < 0 THEN 0 ELSE off,
     i |-> 0]

\* the iteration for index c.i leaves the loop by break
CutBreaks(c) ==
    LET ch == c.utf32_array[c.i + 1]
    IN  c.position >= c.ioffset /\ c.cut_size - ch_size(ch) <= 0

\* variant: ch is pushed whatever cut_size is
CutStepAlwaysPushes(c) ==
    LET ch == c.utf32_array[c.i + 1]
        w  == ch_size(ch)
        inside == c.position >= c.ioffset
        c1 == IF inside
              THEN [c EXCEPT !.is_target = TRUE,
                             !.output = Append(@, ch),
                             !.origin = Append(@, [pad |-> FALSE, src |-> c.i]),
                             !.cut_size = @ - w]
              ELSE c
    IN  IF inside /\ c1.cut_size <= 0 THEN c1
        ELSE LET c2 == [c1 EXCEPT !.position = @ + w]
             IN  IF ((c2.position - 1) >= c2.ioffset) /\ ~c2.is_target
                 THEN [c2 EXCEPT !.cut_size = @ - 1,
                                 !.output = Append(@, SPACE),
                                 !.origin = Append(@, [pad |-> TRUE, src |-> c.i]),
                                 !.i = @ + 1]
                 ELSE [c2 EXCEPT !.i = @ + 1]
\* one iteration of the for loop (i++ included unless it breaks)
CutStep(c) ==
    LET ch == c.utf32_array[c.i + 1]
        w  == ch_size(ch)
        inside == c.position >= c.ioffset
        c1 == IF inside
              THEN [c EXCEPT !.is_target = TRUE,
                             !.output = Append(@, IF c.cut_size >= w THEN ch ELSE SPACE),
                             !.origin = Append(@, [pad |-> ~(c.cut_size >= w), src |-> c.i]),
                             !.cut_size = @ - w]
              ELSE c
    IN  IF inside /\ c1.cut_size <= 0 THEN c1
        ELSE LET c2 == [c1 EXCEPT !.position = @ + w]
             IN  IF ((c2.position - 1) >= c2.ioffset) /\ ~c2.is_target
                 THEN [c2 EXCEPT !.cut_size = @ - 1,
                                 !.output = Append(@, SPACE),
                                 !.origin = Append(@, [pad |-> TRUE, src |-> c.i]),
                                 !.i = @ + 1]
                 ELSE [c2 EXCEPT !.i = @ + 1]

\* the for loop run to its end
RECURSIVE CutLoop(_)
CutLoop(c) ==
    IF ~(c.i < Len(c.utf32_array)) THEN c
    ELSE IF CutBreaks(c) THEN CutStep(c)
    ELSE CutLoop(CutStep(c))

cutTextForWidth(t, off, sz) ==
    LET c == CutEntry(t, off, sz)
    IN  IF c.cut_size <= 0 THEN <<>> ELSE fromUTF32Array(CutLoop(c).output)

(***************************************************************************)
(* The texts and arguments the functions are called with.                  *)
(***************************************************************************)
\* the half-width Kana block, and the block holding the full-width Kana
HalfKanaBlock == \hFF61..\hFF9F
FullKanaBlock == \h3000..\h30FF

\* u ka to ha wa, the two half-width marks, ga, the full-width voiced mark, A
KanaChars == {\hFF73, \hFF76, \hFF84, \hFF8A, \hFF9C, \hFF9E, \hFF9F, \h30AC, \h309B, \h41}

KanaTexts ==
    SeqsUpTo(KanaChars, MaxLen)
    \cup {<<a>> : a \in HalfKanaBlock \cup FullKanaBlock \cup {\hFF60, \hFFA0}}
    \cup {<<a, b>> : a, b \in HalfKanaBlock}
    \cup {<<a, b>> : a \in FullKanaBlock, b \in {\h309B, \h309C}}

\* space ' " A ~, their full-width forms, u and its mark, ga and its mark
ComposeChars ==
    {\h20, \h27, \h22, \h41, \h7E, \h3000, \h2018, \h201C, \hFF01, \hFF5E,
     \hFF73, \hFF9E, \h30AC, \h309B}

ComposeTexts ==
    SeqsUpTo(ComposeChars, MaxComposeLen)
    \cup {<<a>> : a \in (\h20..\h7F) \cup (\h2018..\h201F) \cup FullKanaBlock
                        \cup (\hFF00..\hFFA0)}

\* code points at the edges of the width classes
WidthEdgeChars == {\h7F, \h80, \hFF60, \hFF61, \hFF9F, \hFFA0, \h3042, \h1F600}
\* space, A, half-width a (narrow); hiragana a, an emoji (wide)
CutChars == {\h20, \h41, \hFF71, \h3042, \h1F600}

WidthTexts ==
    {fromUTF32Array(a) : a \in SeqsUpTo(CutChars, MaxLen)}
    \cup {fromUTF32Array(<<a>>) : a \in WidthEdgeChars}
    \cup {fromUTF32Array(<<a, b>>) : a, b \in WidthEdgeChars}

(***************************************************************************)
(* Conversions: each call is one action, applied to the text returned by   *)
(* the call before it.                                                     *)
(***************************************************************************)
Cur == IF hist = <<>> THEN text ELSE hist[Len(hist)]

Called(name, returned) ==
    /\ pc = "idle"
    /\ Len(ops) < MaxOps
    /\ ops' = Append(ops, name)
    /\ hist' = Append(hist, returned)
    /\ UNCHANGED <<text, offset, size, pc, cut, result, width>>

ToHalfWidthAsciiCode == Called("toHalfWidthAsciiCode", toHalfWidthAsciiCode(Cur))
ToFullWidthAsciiCode == Called("toFullWidthAsciiCode", toFullWidthAsciiCode(Cur))
ToHalfWidthKana == Called("toHalfWidthKana", toHalfWidthKana(Cur))
ToFullWidthKana == Called("toFullWidthKana", toFullWidthKana(Cur))
ToHalfWidth == Called("toHalfWidth", toHalfWidth(Cur))
ToFullWidth == Called("toFullWidth", toFullWidth(Cur))

(***************************************************************************)
(* getWidth(text) and cutTextForWidth(text, offset, size).                 *)
(***************************************************************************)
GetWidth ==
    /\ pc = "start"
    /\ width' = getWidth(text)
    /\ pc' = "measured"
    /\ UNCHANGED <<text, ops, hist, offset, size, cut, result>>

\* up to the for loop; "" is returned when cut_size <= 0
CutEnter ==
    /\ pc = "start"
    /\ cut' = CutEntry(text, offset, size)
    /\ IF cut'.cut_size <= 0
       THEN pc' = "done" /\ result' = <<>>
       ELSE pc' = "loop" /\ UNCHANGED result
    /\ UNCHANGED <<text, ops, hist, offset, size, width>>

\* one iteration of the for loop
CutIterate ==
    /\ pc = "loop"
    /\ cut.i < Len(cut.utf32_array)
    /\ cut' = CutStep(cut)
    /\ pc' = IF CutBreaks(cut) THEN "return" ELSE "loop"
    /\ UNCHANGED <<text, ops, hist, offset, size, result, width>>

\* return Unicode.fromUTF32Array(output), after break or the end of the array
CutReturn ==
    /\ \/ pc = "return"
       \/ pc = "loop" /\ ~(cut.i < Len(cut.utf32_array))
    /\ result' = fromUTF32Array(cut.output)
    /\ pc' = "done"
    /\ UNCHANGED <<text, ops, hist, offset, size, cut, width>>

(***************************************************************************)
(* Specifications.                                                         *)
(***************************************************************************)
NotCutting ==
    /\ offset = 0 /\ size = 0 /\ pc = "idle" /\ cut = NoCut
    /\ result = <<>> /\ width = 0

InitKana == text \in KanaTexts /\ ops = <<>> /\ hist = <<>> /\ NotCutting
NextKana == ToHalfWidthKana \/ ToFullWidthKana
SpecKana == InitKana /\ [][NextKana]_vars

InitCompose == text \in ComposeTexts /\ ops = <<>> /\ hist = <<>> /\ NotCutting
NextCompose ==
    \/ Len(ops) < MaxPass /\ ToHalfWidthAsciiCode
    \/ Len(ops) < MaxPass /\ ToFullWidthAsciiCode
    \/ Len(ops) < MaxPass /\ ToHalfWidthKana
    \/ Len(ops) < MaxPass /\ ToFullWidthKana
    \/ Len(ops) < MaxPass /\ ToHalfWidth
    \/ Len(ops) < MaxPass /\ ToFullWidth
SpecCompose == InitCompose /\ [][NextCompose]_vars

InitWidth ==
    /\ text \in WidthTexts
    /\ offset \in -MaxNeg..MaxOffset
    /\ size \in -1..MaxSize
    /\ ops = <<>> /\ hist = <<>>
    /\ pc = "start" /\ cut = NoCut /\ result = <<>> /\ width = 0
NextWidth == GetWidth \/ CutEnter \/ CutIterate \/ CutReturn
SpecWidth == InitWidth /\ [][NextWidth]_vars

(***************************************************************************)
(* Properties.                                                             *)
(***************************************************************************)
\* display width of one code point as the width rule states it
RuleWidth(cp) == IF cp < \h80 \/ (\hFF61 <= cp /\ cp <= \hFF9F) THEN 1 ELSE 2

\* sum of the rule's widths over a code point array
RuleSum(a) ==
    Cardinality({i \in 1..Len(a) : RuleWidth(a[i]) = 1})
    + 2 * Cardinality({i \in 1..Len(a) : RuleWidth(a[i]) = 2})

\* first display column of the code point at 0-based index j of a
ColumnOf(a, j) == RuleSum(SubSeq(a, 1, j))

HalfOp == "toHalfWidthKana"
FullOp == "toFullWidthKana"

\* C1: for offset >= 0 and size > 0 the width of cutTextForWidth(text, offset,
\* size) is exactly size when the text has at least offset + size columns, and
\* never more than size otherwise.
C1_CutWidthIsSize ==
    (pc = "done" /\ offset >= 0 /\ size > 0) =>
        /\ getWidth(text) >= offset + size => getWidth(result) = size
        /\ getWidth(result) <= size

\* C2: toFullWidthKana turns the pair U+FF73 U+FF9E into the single code unit
\* U+30F4, wherever the pair stands in the text.
C2_VoicedUIsKatakanaVu ==
    (Len(ops) >= 1 /\ ops[1] = FullOp) =>
        \A i \in 1..(Len(text) - 1) :
            (text[i] = \hFF73 /\ text[i + 1] = \hFF9E) =>
                hist[1] = toFullWidthKana(SubSeq(text, 1, i - 1)) \o <<\h30F4>>
                          \o toFullWidthKana(SubSeq(text, i + 2, Len(text)))

\* the half-width pairs of the four voiced Katakana U+30F7..U+30FA
UnmappedVoicedPair(a, b) == a \in {\hFF9C, \hFF72, \hFF74, \hFF66} /\ b = \hFF9E

\* C3: for a text k of half-width Kana holding none of the four unmapped voiced
\* pairs, toFullWidthKana(toHalfWidthKana(toFullWidthKana(k))) is
\* toFullWidthKana(k).
C3_FullHalfFullIsFull ==
    ( /\ ops = <<FullOp, HalfOp, FullOp>>
      /\ \A i \in 1..Len(text) : text[i] \in HalfKanaBlock
      /\ \A i \in 1..(Len(text) - 1) : ~UnmappedVoicedPair(text[i], text[i + 1]) )
    => hist[3] = hist[1]

C3_Witness ==
    /\ ops = <<FullOp, HalfOp, FullOp>>
    /\ text = <<\hFF8A, \hFF9F, \hFF9E>>
    /\ hist = << <<\h30D1, \h309B>>, <<\hFF8A, \hFF9F, \hFF9E>>, <<\h30D1, \h309B>> >>

\* voiced Katakana of the ka..to rows, voiced and semi-voiced of the ha..ho rows
VoicedKaTo ==
    {\h30AC, \h30AE, \h30B0, \h30B2, \h30B4, \h30B6, \h30B8, \h30BA, \h30BC, \h30BE,
     \h30C0, \h30C2, \h30C5, \h30C7, \h30C9}
VoicedHaHo == {\h30D0, \h30D3, \h30D6, \h30D9, \h30DC}
SemiVoicedHaHo == {\h30D1, \h30D4, \h30D7, \h30DA, \h30DD}

\* C4: toHalfWidthKana turns each voiced or semi-voiced Katakana of these rows
\* into two code units, a half-width base and the mark U+FF9E or U+FF9F, and
\* toFullWidthKana turns that pair back into the original code unit, which is
\* the mapping of the base alone plus 1 (voiced) or plus 2 (semi-voiced).
C4_VoicedSplitsAndJoins ==
    ( /\ Len(ops) >= 2 /\ ops[1] = HalfOp /\ ops[2] = FullOp
      /\ Len(text) = 1
      /\ text[1] \in VoicedKaTo \cup VoicedHaHo \cup SemiVoicedHaHo )
    => LET semi == text[1] \in SemiVoicedHaHo
       IN  /\ Len(hist[1]) = 2
           /\ hist[1][1] \in HalfKanaBlock \ {\hFF9E, \hFF9F}
           /\ hist[1][2] = (IF semi THEN \hFF9F ELSE \hFF9E)
           /\ hist[2] = text
           /\ toFullWidthKana(<<hist[1][1]>>)
                  = <<text[1] - (IF semi THEN 2 ELSE 1)>>

C4_Witness ==
    /\ ops = <<HalfOp, FullOp>>
    /\ text = <<\h30C9>>
    /\ hist = << <<\hFF84, \hFF9E>>, <<\h30C9>> >>

\* a mark that toFullWidthKana does not join to the base before it
NotApplicable(base, mark) ==
    \/ /\ mark = \hFF9E
       /\ base \notin {\hFF73} \cup (\hFF76..\hFF84) \cup (\hFF8A..\hFF8E)
    \/ /\ mark = \hFF9F
       /\ base \notin (\hFF8A..\hFF8E)

\* C5: toFullWidthKana turns a half-width base followed by a mark that is not
\* applicable to it into two code units, the mapping of the base and the
\* mapping of the mark (U+309B or U+309C); none of U+30F7..U+30FA is produced.
C5_InapplicableMarkStaysApart ==
    ( /\ Len(ops) >= 1 /\ ops[1] = FullOp
      /\ Len(text) = 2
      /\ text[1] \in HalfKanaBlock
      /\ NotApplicable(text[1], text[2]) )
    => /\ hist[1] = <<FullMap[text[1]], IF text[2] = \hFF9E THEN \h309B ELSE \h309C>>
       /\ \A k \in 1..Len(hist[1]) : hist[1][k] \notin \h30F7..\h30FA

C5_Witness ==
    /\ ops = <<FullOp>>
    /\ text = <<\hFF66, \hFF9E>>
    /\ hist = << <<\h30F2, \h309B>> >>

\* C6: for offset < 0 the result is cutTextForWidth(text, 0, size + offset), and
\* when the effective size is <= 0 the result is the empty text.
C6_NegativeOffsetShrinks ==
    pc = "done" =>
        /\ offset < 0 => result = cutTextForWidth(text, 0, size + offset)
        /\ (IF offset < 0 THEN size + offset ELSE size) <= 0 => result = <<>>

C6_Witness ==
    /\ pc = "done"
    /\ text = <<\h41, \h41, \h41>> /\ offset = -2 /\ size = 4
    /\ result = <<\h41, \h41>>

\* the source domains as the claim lists them
StatedHalfDomain == {\h3001, \h3002, \h300C, \h300D, \h309B, \h309C} \cup (\h30A1..\h30FC)
StatedFullDomain == \hFF61..\hFF9F

\* C7: a code unit outside the source domain of toHalfWidthKana or
\* toFullWidthKana stands unchanged between the conversions of what is before
\* and after it; a code unit inside the domain is replaced by its table entry,
\* and every code unit of the output is a copied one or one of the target block.
C7_TotalAndPassThrough ==
    (pc = "idle" /\ Len(ops) >= 1) =>
        LET half == ops[1] = HalfOp
            conv(t) == IF half THEN toHalfWidthKana(t) ELSE toFullWidthKana(t)
            domain == IF half THEN StatedHalfDomain ELSE StatedFullDomain
            target == IF half THEN HalfKanaBlock ELSE FullKanaBlock
            outside == {text[i] : i \in 1..Len(text)} \ domain
        IN  /\ \A i \in 1..Len(text) :
                   text[i] \notin domain =>
                       hist[1] = conv(SubSeq(text, 1, i - 1)) \o <<text[i]>>
                                 \o conv(SubSeq(text, i + 1, Len(text)))
            /\ \A k \in 1..Len(hist[1]) : hist[1][k] \in outside \cup target
            /\ (Len(text) = 1 /\ text[1] \in domain) =>
                   IF half
                   THEN text[1] \in DOMAIN HalfMap /\ hist[1] = HalfMap[text[1]]
                   ELSE text[1] \in DOMAIN FullMap /\ hist[1] = <<FullMap[text[1]]>>

C7_Witness ==
    /\ ops = <<HalfOp>>
    /\ text = <<\h41, \h30AC, \h41>>
    /\ hist = << <<\h41, \hFF76, \hFF9E, \h41>> >>

\* C8: getWidth(text) is the sum over the code points of text of 1 for a code
\* point < U+0080 or in U+FF61..U+FF9F and 2 for any other; it is 0 for the
\* empty text, never negative, and additive over concatenation.
C8_GetWidthIsSum ==
    pc = "measured" =>
        LET a == toUTF32Array(text)
        IN  /\ width = RuleSum(a)
            /\ width >= 0
            /\ text = <<>> => width = 0
            /\ \A k \in 0..Len(a) :
                   width = getWidth(fromUTF32Array(SubSeq(a, 1, k)))
                           + getWidth(fromUTF32Array(SubSeq(a, k + 1, Len(a))))

C8_Witness ==
    pc = "measured" /\ text = <<\h41, \h3042>> /\ width = 3

\* C9: for offset >= 0 and size > 0, every code point of the result not pushed
\* as padding is an input code point whose columns all lie in the window
\* [offset, offset + size), these stand in input order without gaps, and a wide
\* code point cut by an edge of the window is not in the result: exactly one
\* ASCII space stands for it.
C9_NoFractionalGlyph ==
    (pc = "done" /\ offset >= 0 /\ size > 0) =>
        LET a == cut.utf32_array
            out == cut.output
            org == cut.origin
            kept == {k \in 1..Len(out) : ~org[k].pad}
            cutByEdge(j) ==
                /\ RuleWidth(a[j + 1]) = 2
                /\ ColumnOf(a, j) + 1 \in {offset, offset + size}
        IN  /\ a = toUTF32Array(text) /\ result = fromUTF32Array(out)
            /\ Len(org) = Len(out)
            /\ \A k \in kept :
                   /\ out[k] = a[org[k].src + 1]
                   /\ ColumnOf(a, org[k].src) >= offset
                   /\ ColumnOf(a, org[k].src) + RuleWidth(out[k]) <= offset + size
            /\ \A k, l \in kept : org[l].src - org[k].src = l - k
            /\ \A j \in 0..(Len(a) - 1) :
                   cutByEdge(j) =>
                       /\ \A k \in kept : org[k].src # j
                       /\ Cardinality({k \in 1..Len(out) :
                              org[k].pad /\ org[k].src = j /\ out[k] = SPACE}) = 1
                       /\ \A k \in 1..Len(out) : org[k].src = j => org[k].pad

C9_Witness ==
    /\ pc = "done"
    /\ text = <<\h3042, \h3042, \h3042>> /\ offset = 1 /\ size = 4
    /\ result = <<SPACE, \h3042, SPACE>>

InHalfKanaDomain(c) == c \in StatedHalfDomain
InFullKanaDomain(c) == c \in StatedFullDomain
InHalfAsciiDomain(c) == c \in {\h3000} \cup (\h2018..\h201F) \cup (\hFF01..\hFF5E)
InFullAsciiDomain(c) == c \in \h20..\h7E

\* C10: the ASCII pass and the Kana pass of toFullWidth and of toHalfWidth give
\* the same text in either order; neither pass adds, changes or removes a code
\* unit of the other's domain; toFullWidth maps U+0020 to U+3000 and U+0027 to
\* U+2019.
C10_PassesDoNotInterfere ==
    (pc = "idle" /\ Len(ops) = 1) =>
        /\ ops[1] = "toFullWidth" =>
               /\ hist[1] = toFullWidthAsciiCode(toFullWidthKana(text))
               /\ text = <<\h20>> => hist[1] = <<\h3000>>
               /\ text = <<\h27>> => hist[1] = <<\h2019>>
        /\ ops[1] = "toHalfWidth" =>
               hist[1] = toHalfWidthAsciiCode(toHalfWidthKana(text))
        /\ ops[1] = "toFullWidthAsciiCode" =>
               SelectSeq(hist[1], InFullKanaDomain) = SelectSeq(text, InFullKanaDomain)
        /\ ops[1] = "toFullWidthKana" =>
               SelectSeq(hist[1], InFullAsciiDomain) = SelectSeq(text, InFullAsciiDomain)
        /\ ops[1] = "toHalfWidthAsciiCode" =>
               SelectSeq(hist[1], InHalfKanaDomain) = SelectSeq(text, InHalfKanaDomain)
        /\ ops[1] = "toHalfWidthKana" =>
               SelectSeq(hist[1], InHalfAsciiDomain) = SelectSeq(text, InHalfAsciiDomain)

C10_Witness ==
    /\ ops = <<"toFullWidth">>
    /\ text = <<\h20, \hFF73>>
    /\ hist = << <<\h3000, \h30A6>> >>

====
